---- MODULE Spec2Model ----
(***************************************************************************)
(* Process supervision and instance lifecycle of MyMinecraftManager:      *)
(* server.js (the ProcessManager-based variant, src/unnamed/part_002) and  *)
(* ProcessManager.js (src/unnamed/part_000).                               *)
(*                                                                         *)
(* Node runs every handler to completion; a handler that awaits is cut at  *)
(* the await into steps, and each step is one action.  The operating       *)
(* system (process death, signal delivery, the child-process exit event)   *)
(* moves between the steps.                                                *)
(***************************************************************************)
EXTENDS Integers, Sequences, FiniteSets, TLC

\* ------------------------------------------------------------------ bounds
\* Spawn attempts made through the ProcessManager (handle ids 1..MaxSpawns).
MaxSpawns == 2
\* Instance objects ever created by registration.
MaxObjs == 2
\* Lifecycle calls in flight (suspended at an await or a timer) at one time.
MaxTasks == 1
\* Settings updates (renames) the clients make.
MaxUpdates == 1
\* Lines written to one Log Buffer.
MaxLines == 410
MaxErrors == 2
MaxText == 3

\* Positions of the task list: the calls in flight and the exit listeners
\* that the stop calls made on each spawned process leave behind.
MaxSlots == MaxTasks + MaxSpawns

\* ------------------------------------------------------------- the inputs
Names == {"alpha", "beta"}
Dirs == {"/srv"}
\* A command line, held as the tokens instance.command.split(' ') yields.
\* The first is what the instances of Spec run; SpecGate has both.
ServerLines == { <<"run.sh">> }
CommandLines == ServerLines \cup { <<"RM", "-rf">> }
\* disabled_commands.json, read once by the ProcessManager constructor.
\* A rule has a command and may have args; the third rule has none.
DisabledCommands == << [command |-> "rm", args |-> <<"-rf">>],
                       [command |-> "Shutdown", args |-> <<>>],
                       [command |-> "dd"] >>

\* JavaScript null (a pid that is not set) and undefined (proc.pid of a
\* ChildProcess that failed to start).
Null == 0
Undefined == -1
Falsy(pid) == pid \in {Null, Undefined}

\* ------------------------------------------------------------------ state
VARIABLES
    instances,  \* the Registry: name -> index of the instance object, 0 if absent
    objs,       \* the instance objects, in order of creation
    disk,       \* instances.json as last written by saveInstances
    processes,  \* pm.processes: handle id -> process info
    nextId,     \* pm.nextId
    os,         \* the host: pid -> state of the spawned process and its group
    tasks,      \* suspended lifecycle calls, in order of suspension
    updates,    \* settings updates made so far
    out,        \* what the last step reported: response, saves, notifications
    instanceLogs,  \* the Log Buffers: name -> buffered lines, oldest first
    probe       \* a question put to the Command Gate, and its answer

vars == <<instances, objs, disk, processes, nextId, os, tasks, updates, out,
          instanceLogs, probe>>

\* ---------------------------------------------------------------- helpers
Min(S) == CHOOSE x \in S : \A y \in S : x <= y

\* String.prototype.toLowerCase on the strings of the model.
ToLower(s) ==
    CASE s = "RM" -> "rm"
      [] s = "-RF" -> "-rf"
      [] s = "/srv/RM" -> "/srv/rm"
      [] s \in {"Shutdown", "SHUTDOWN"} -> "shutdown"
      [] s = "DD" -> "dd"
      [] OTHER -> s

\* path.join(workingDir, command)
PathJoin(dir, command) == dir \o "/" \o command

\* !entry.args || entry.args.length === 0
NoArgs(entry) == "args" \notin DOMAIN entry \/ Len(entry.args) = 0

\* An entry that matches only a request with as many arguments as it has.
RuleMatchesExactly(entry, cmdLower, argsLower) ==
    IF ToLower(entry.command) # cmdLower THEN FALSE
    ELSE IF NoArgs(entry) THEN TRUE
    ELSE IF Len(entry.args) # Len(argsLower) THEN FALSE
    ELSE \A i \in 1..Len(entry.args) : ToLower(entry.args[i]) = argsLower[i]

\* One entry of the denylist against a lower-cased request.
RuleMatches(entry, cmdLower, argsLower) ==
    IF ToLower(entry.command) # cmdLower THEN FALSE
    ELSE IF NoArgs(entry) THEN TRUE
    ELSE IF Len(entry.args) > Len(argsLower) THEN FALSE
    ELSE \A i \in 1..Len(entry.args) : ToLower(entry.args[i]) = argsLower[i]

isCommandWithArgsDisabled(command, args) ==
    LET cmdLower == ToLower(command)
        argsLower == [i \in 1..Len(args) |-> ToLower(args[i])]
    IN \E k \in 1..Len(DisabledCommands) :
          RuleMatches(DisabledCommands[k], cmdLower, argsLower)

\* The entry JSON.stringify writes for a name that is no key of the Registry.
NoInst == [name |-> "", workingDir |-> "", command |-> <<>>,
           status |-> "absent", pid |-> Null]

\* JSON.stringify(instances): every key with the fields of its object.
Snapshot(inst, ob) ==
    [n \in Names |-> IF inst[n] = 0 THEN NoInst ELSE ob[inst[n]]]

\* process.kill(pid, 0): succeeds until the child has been reaped.
isPidRunning(pid) == pid \in DOMAIN os /\ os[pid].leader # "gone"

\* A find whose test is true of every handle: the first handle there is.
FindFirst(procs, pid) == IF DOMAIN procs = {} THEN 0 ELSE Min(DOMAIN procs)

\* [...pm.processes.values()].find(p => p.pid === pid): the first handle, in
\* insertion order, that carries the pid; 0 if none does.
FindByPid(procs, pid) ==
    LET S == {i \in DOMAIN procs : procs[i].pid = pid}
    IN IF S = {} THEN 0 ELSE Min(S)

\* The pid the host gives to the process of spawn attempt id.
PidOf(id) == 100 + id

\* What one step lets the outside see: the operation that answered and its
\* result, the number of saveInstances calls, the number of notifications.
Report(op, res, saves, emits) ==
    [op |-> op, res |-> res, saves |-> saves, emits |-> emits]

\* A step that answers nothing (a call that suspends, a move of the host).
Quiet == Report("none", "none", 0, 0)

\* A call that fails before it changes anything answers with an error (the
\* message is what the ...Error operator of the call gives) and leaves the
\* supervisor as it was.
Reject ==
    /\ out' = Report("rejected", "error", 0, 0)
    /\ UNCHANGED <<instances, objs, disk, processes, nextId, os, tasks, updates,
                   instanceLogs, probe>>

RemoveAt(s, i) == [j \in 1..(Len(s) - 1) |-> IF j < i THEN s[j] ELSE s[j + 1]]

\* Nothing has been asked of the Command Gate.
NoProbe == [command |-> "", args |-> <<>>, verdict |-> "none"]

\* ---------------------------------------------------------- initial state
\* The supervisor starts with no instances.json: an empty Registry, which the
\* startup pass saves; a fresh ProcessManager; nothing spawned.
Init ==
    /\ instances = [n \in Names |-> 0]
    /\ objs = <<>>
    /\ disk = [n \in Names |-> NoInst]
    /\ processes = <<>>
    /\ nextId = 1
    /\ os = <<>>
    /\ tasks = <<>>
    /\ updates = 0
    /\ out = Report("boot", "ok", 1, 0)
    /\ instanceLogs = [n \in Names |-> <<>>]
    /\ probe = NoProbe

\* ------------------------------------------------------- Instance Registry
\* A validation that does not look whether the name is taken.
RegisterErrorBlind(name, workingDir, command) ==
    IF name = "" \/ workingDir = "" \/ command = <<>> THEN "Missing fields"
    ELSE ""

\* The error POST /instances answers with; "" if it registers.
RegisterError(name, workingDir, command) ==
    IF name = "" \/ workingDir = "" \/ command = <<>> THEN "Missing fields"
    ELSE IF instances[name] # 0 THEN "Instance already exists"
    ELSE ""

\* POST /instances
Register(name, workingDir, command) ==
    IF RegisterError(name, workingDir, command) # "" THEN Reject
    ELSE /\ Len(objs) < MaxObjs
         /\ objs' = Append(objs, [name |-> name, workingDir |-> workingDir,
                                  command |-> command, status |-> "stopped",
                                  pid |-> Null])
         /\ instances' = [instances EXCEPT ![name] = Len(objs) + 1]
         /\ disk' = Snapshot(instances', objs')
         /\ out' = Report("register", "ok", 1, 0)
         /\ UNCHANGED <<processes, nextId, os, tasks, updates, instanceLogs,
                        probe>>

\* socket "updateInstanceSettings": the object is edited in place and moved
\* to its new key; the handler does not call saveInstances.
UpdateInstanceSettings(originalName, name, workingDir, command) ==
    IF instances[originalName] = 0 THEN Reject
    ELSE LET o == instances[originalName] IN
         /\ updates < MaxUpdates
         /\ updates' = updates + 1
         /\ objs' = [objs EXCEPT ![o] = [@ EXCEPT !.name = name,
                                                  !.workingDir = workingDir,
                                                  !.command = command]]
         /\ instances' = IF originalName # name
                         THEN [instances EXCEPT ![name] = o, ![originalName] = 0]
                         ELSE instances
         /\ out' = Report("update", "ok", 0, 1)
         /\ UNCHANGED <<disk, processes, nextId, os, tasks, instanceLogs,
                        probe>>

\* ------------------------------------------------------ Reconciliation Loop
\* inst.status === "running"
WasRunning(inst) == IF inst.status = "running" THEN "true" ELSE "false"

\* inst.pid && isPidRunning(inst.pid): the pid itself when it is falsy.
IsRunningNow(inst) ==
    IF Falsy(inst.pid) THEN "null"
    ELSE IF isPidRunning(inst.pid) THEN "true" ELSE "false"

\* A loop body that looks at the instance and leaves it as it is.
ReconciledNever(inst) == inst

\* A loop body that marks an instance whose process is not running "crashed".
ReconciledCrashed(inst) ==
    IF WasRunning(inst) # IsRunningNow(inst)
    THEN [inst EXCEPT !.status = IF IsRunningNow(inst) = "true"
                                 THEN "running" ELSE "crashed",
                      !.pid = IF IsRunningNow(inst) = "true" THEN @ ELSE Null]
    ELSE inst

\* The body of the loop for one instance object.
Reconciled(inst) ==
    IF WasRunning(inst) # IsRunningNow(inst)
    THEN [inst EXCEPT !.status = IF IsRunningNow(inst) = "true"
                                 THEN "running" ELSE "stopped",
                      !.pid = IF IsRunningNow(inst) = "true" THEN @ ELSE Null]
    ELSE inst

\* One run of the setInterval callback.
Tick ==
    LET keys == {n \in Names : instances[n] # 0}
        changed == \E n \in keys :
                      WasRunning(objs[instances[n]]) # IsRunningNow(objs[instances[n]])
    IN /\ objs' = [o \in 1..Len(objs) |->
                     IF \E n \in keys : instances[n] = o
                     THEN Reconciled(objs[o]) ELSE objs[o]]
       /\ disk' = IF changed THEN Snapshot(instances, objs') ELSE disk
       /\ out' = Report("tick", "ok", IF changed THEN 1 ELSE 0,
                        IF changed THEN 1 ELSE 0)
       /\ UNCHANGED <<instances, processes, nextId, os, tasks, updates,
                      instanceLogs, probe>>

\* -------------------------------------------------------- Process Supervisor
\* appendError: the message is pushed onto the handle's errors (the line
\* appended to the per-command log file leaves the supervisor's state alone).
appendError(errorMsg, procInfo) ==
    [procInfo EXCEPT !.errors = Append(@, errorMsg)]

\* The fields of a handle the lifecycle reads: id, proc, pid, errors; cpu
\* and memory are 0 until a stats probe writes them.
ProcInfo(id, hasProc, pid, errors) ==
    [id |-> id, hasProc |-> hasProc, pid |-> pid, errors |-> errors,
     cpu |-> 0, memory |-> 0]

\* What child_process.spawn can do: start the shell ("ok"), return a child
\* that failed to start and has no pid ("nopid"), or throw ("throw").
SpawnOutcomes == {"ok", "nopid", "throw"}

\* A freshly spawned, detached shell; forks tells whether the shell runs the
\* workload as a child of its process group or becomes the workload itself.
\* obj is the instance object startServer spawned it for, name the name it
\* was started under, which the stdout and stderr listeners keep.
NewProc(forks, obj, name) ==
    [leader |-> "alive", child |-> forks, obj |-> obj, name |-> name]

\* Some member of the process group of pid p is still running.
GroupAlive(osState, p) == osState[p].leader = "alive" \/ osState[p].child

\* A spawnProcess that writes the id of the first attempt into every handle.
spawnProcessFirstId(id, command, args, outcome) ==
    IF isCommandWithArgsDisabled(command, args)
    THEN appendError("disabled", ProcInfo(1, FALSE, Null, <<"disabled">>))
    ELSE IF outcome = "ok"
    THEN ProcInfo(1, TRUE, PidOf(id), <<>>)
    ELSE IF outcome = "nopid"
    THEN ProcInfo(1, TRUE, Undefined, <<>>)
    ELSE appendError("spawn", ProcInfo(1, FALSE, Null, <<"spawn">>))

\* pm.spawnProcess(command, args): the handle that is stored under id.
spawnProcess(id, command, args, outcome) ==
    IF isCommandWithArgsDisabled(command, args)
    THEN appendError("disabled", ProcInfo(id, FALSE, Null, <<"disabled">>))
    ELSE IF outcome = "ok"
    THEN ProcInfo(id, TRUE, PidOf(id), <<>>)
    ELSE IF outcome = "nopid"
    THEN ProcInfo(id, TRUE, Undefined, <<>>)
    ELSE appendError("spawn", ProcInfo(id, FALSE, Null, <<"spawn">>))

\* What process.kill(-pid, "SIGTERM") can do: throw (no such group, not
\* permitted), end the members of the group, or be caught by them.
KillEffects == {"rejected", "terminated", "ignored"}

\* The ids killProcess is called with: those given so far and one never given.
HandleIds == 1..(MaxSpawns + 1)

\* SIGTERM delivered to the process group of pid and not caught.
Terminated(osState, pid) ==
    [osState EXCEPT ![pid] =
       [@ EXCEPT !.leader = IF @ = "alive" THEN "zombie" ELSE @, !.child = FALSE]]

\* A killProcess that swallows what goes wrong without recording it.
killUnrecorded(procs, processId, effect) == procs

\* killProcess(processId) on the handles: the error it records, if any.
killRecorded(procs, processId, effect) ==
    IF processId \notin DOMAIN procs THEN procs
    ELSE IF ~Falsy(procs[processId].pid)
    THEN IF effect = "rejected"
         THEN [procs EXCEPT ![processId] = appendError("kill", @)]
         ELSE procs
    ELSE [procs EXCEPT ![processId] = appendError("never started", @)]

\* pm.killProcess(processId).  The host rejects the signal when the group
\* has no member left, and may reject it otherwise.
killProcess(processId, effect) ==
    /\ LET signals == processId \in DOMAIN processes
                      /\ ~Falsy(processes[processId].pid)
           pid == processes[processId].pid
       IN /\ IF signals
             THEN (pid \notin DOMAIN os \/ (os[pid].leader = "gone" /\ ~os[pid].child))
                  => effect = "rejected"
             ELSE effect = "ignored"
          /\ processId \in DOMAIN processes
             => Len(processes[processId].errors) < MaxErrors
          /\ os' = IF signals /\ effect = "terminated" THEN Terminated(os, pid) ELSE os
    /\ processes' = killRecorded(processes, processId, effect)
    /\ out' = Report("kill", "ok", 0, 0)
    /\ UNCHANGED <<instances, objs, disk, nextId, tasks, updates, instanceLogs,
                   probe>>

\* What pidusage(pid) settles with: a failure, or cpu and memory readings.
ProbeFailed == [ok |-> FALSE, cpu |-> 0, memory |-> 0]
ProbeOutcomes ==
    {ProbeFailed, [ok |-> TRUE, cpu |-> 5, memory |-> 7],
     [ok |-> TRUE, cpu |-> 9, memory |-> 3]}

\* The .then and .catch of one probe, on the handle it was made for.
probeSettled(info, outcome) ==
    IF outcome.ok THEN [info EXCEPT !.cpu = outcome.cpu, !.memory = outcome.memory]
    ELSE appendError("stats", info)

\* The probes of a batch that have not settled.
Probes(ts) == SelectSeq(ts, LAMBDA t : t.kind = "probe")

\* A Promise.all over probes without .catch: the first failure rejects it.
allSettledUncaught(rest, outcome) ==
    IF ~outcome.ok THEN Report("updateStats", "Error", 0, 0)
    ELSE IF rest = <<>> THEN Report("updateStats", "ok", 0, 0) ELSE Quiet

\* await Promise.all(promises): every promise has its .catch, so the batch
\* resolves, and does so when the last probe has settled.
allSettled(rest, outcome) ==
    IF rest = <<>> THEN Report("updateStats", "ok", 0, 0) ELSE Quiet

\* pm.updateStats() up to its await: one probe per handle that has a pid.
updateStats ==
    /\ Probes(tasks) = <<>>
    /\ LET ids == SelectSeq([k \in 1..(nextId - 1) |-> k],
                            LAMBDA k : k \in DOMAIN processes
                                       /\ ~Falsy(processes[k].pid))
           probes == [k \in 1..Len(ids) |->
                        [kind |-> "probe", name |-> "", obj |-> 0, hid |-> ids[k],
                         pid |-> processes[ids[k]].pid, timer |-> "none",
                         caller |-> "stats", cmd |-> <<>>, dir |-> "", waited |-> 0]]
       IN /\ tasks' = tasks \o probes
          /\ out' = IF probes = <<>> THEN Report("updateStats", "ok", 0, 0) ELSE Quiet
    /\ UNCHANGED <<instances, objs, disk, processes, nextId, os, updates,
                   instanceLogs, probe>>

\* One pidusage promise settles.  A pid that is gone cannot be read.
ProbeSettles(i, outcome) ==
    /\ i \in 1..Len(tasks)
    /\ tasks[i].kind = "probe"
    /\ LET t == tasks[i]
       IN /\ (t.pid \notin DOMAIN os \/ os[t.pid].leader = "gone") => ~outcome.ok
          /\ (~outcome.ok /\ t.hid \in DOMAIN processes)
             => Len(processes[t.hid].errors) < MaxErrors
          /\ processes' = IF t.hid \in DOMAIN processes
                          THEN [processes EXCEPT ![t.hid] = probeSettled(@, outcome)]
                          ELSE processes
          /\ tasks' = RemoveAt(tasks, i)
          /\ out' = allSettled(Probes(tasks'), outcome)
    /\ UNCHANGED <<instances, objs, disk, nextId, os, updates, instanceLogs, probe>>

\* ---------------------------------------------------- Lifecycle Orchestrator
Task(kind, name, obj, hid, pid, timer, caller, cmd, dir, waited) ==
    [kind |-> kind, name |-> name, obj |-> obj, hid |-> hid, pid |-> pid,
     timer |-> timer, caller |-> caller, cmd |-> cmd, dir |-> dir,
     waited |-> waited]

\* The calls that have not answered yet: every task but the exit listener a
\* stop call leaves behind when its grace timer resolved it.
Pending(ts) == Len(SelectSeq(ts, LAMBDA t : t.timer # "fired"))

\* startServer up to its await of fs.pathExists: the instance object, its
\* command line and the path to probe are taken before the await.
StartTask(name, o, ob, caller) ==
    Task("start", name, o, 0, Null, "none", caller, ob[o].command,
         ob[o].workingDir, 0)

\* A startServer that starts an instance only while nothing was spawned.
StartErrorIfUsed(name) ==
    IF instances[name] = 0 THEN "Instance not found"
    ELSE IF nextId > 1 THEN "Instance already started" ELSE ""

\* What startServer throws before its await; "" if it goes on.
StartError(name) == IF instances[name] = 0 THEN "Instance not found" ELSE ""

\* POST /instances/:name/start and socket instanceAction "start".
StartCall(name) ==
    IF StartError(name) # "" THEN Reject
    ELSE /\ Pending(tasks) < MaxTasks
         /\ nextId <= MaxSpawns
         /\ tasks' = Append(tasks, StartTask(name, instances[name], objs, "api"))
         /\ out' = Quiet
         /\ UNCHANGED <<instances, objs, disk, processes, nextId, os, updates,
                        instanceLogs, probe>>

\* The operation a start task answers for.
OpOf(t) == IF t.caller = "restart" THEN "restart" ELSE "start"

\* cmdToRun of startServer: the file in the working directory if fs.pathExists
\* found one there, else the command as written, to be looked up in PATH.
CmdToRun(t, exists) ==
    IF exists THEN PathJoin(t.dir, Head(t.cmd)) ELSE Head(t.cmd)

\* startServer from the await on: resolve the executable, spawn through the
\* ProcessManager, and mark the instance object running if a pid came back.
StartSpawn(i, exists, outcome, forks) ==
    /\ i \in 1..Len(tasks)
    /\ tasks[i].kind = "start"
    /\ nextId <= MaxSpawns
    /\ LET t == tasks[i]
           args == Tail(t.cmd)
           procInfo == spawnProcess(nextId, CmdToRun(t, exists), args, outcome)
       IN /\ processes' = processes @@ (nextId :> procInfo)
          /\ nextId' = nextId + 1
          /\ os' = IF Falsy(procInfo.pid) THEN os
                   ELSE os @@ (procInfo.pid :> NewProc(forks, t.obj, t.name))
          /\ IF Falsy(procInfo.pid)
             THEN /\ out' = Report(OpOf(t), "Failed to start process", 0, 0)
                  /\ UNCHANGED <<objs, disk>>
             ELSE /\ objs' = [objs EXCEPT ![t.obj] =
                                [@ EXCEPT !.pid = procInfo.pid, !.status = "running"]]
                  /\ disk' = Snapshot(instances, objs')
                  /\ out' = Report(OpOf(t), "ok", 1, 1)
          /\ tasks' = RemoveAt(tasks, i)
          /\ UNCHANGED <<instances, updates, instanceLogs, probe>>

\* ----------------------------------------------------------------- the host
\* The workload ends by itself (clean shutdown, crash): the shell and its
\* group are dead, the child not yet reaped by Node.
ProcExit(p) ==
    /\ p \in DOMAIN os
    /\ os[p].leader = "alive"
    /\ os' = [os EXCEPT ![p] = [@ EXCEPT !.leader = "zombie", !.child = FALSE]]
    /\ out' = Quiet
    /\ UNCHANGED <<instances, objs, disk, processes, nextId, tasks, updates,
                   instanceLogs, probe>>

\* SIGKILL delivered to one pid: that process is dead from then on (a
\* zombie until Node reaps it); the other members of its group live on.
Killed(osState, p) ==
    IF osState[p].leader = "alive"
    THEN [osState EXCEPT ![p].leader = "zombie"] ELSE osState

\* The shell is killed from outside the supervisor.
LeaderKilled(p) ==
    /\ p \in DOMAIN os
    /\ os[p].leader = "alive"
    /\ os' = Killed(os, p)
    /\ out' = Quiet
    /\ UNCHANGED <<instances, objs, disk, processes, nextId, tasks, updates,
                   instanceLogs, probe>>

\* A workload that outlived its shell ends.
OrphanExit(p) ==
    /\ p \in DOMAIN os
    /\ os[p].leader # "alive"
    /\ os[p].child
    /\ os' = [os EXCEPT ![p] = [@ EXCEPT !.child = FALSE]]
    /\ out' = Quiet
    /\ UNCHANGED <<instances, objs, disk, processes, nextId, tasks, updates,
                   instanceLogs, probe>>

\* --------------------------------------------------------- stop and restart
\* waitUntilStopped(name, 5000): the polling interval and the time allowed.
PollIntervalMs == 250
RestartTimeoutMs == 5000

\* A cleanup that marks the instance stopped and forgets to clear its pid.
CleanupKeepsPid(ob, o) == [ob EXCEPT ![o] = [@ EXCEPT !.status = "stopped"]]

\* cleanup() of stopServer, on the instance object the call captured.
Cleanup(ob, o) ==
    [ob EXCEPT ![o] = [@ EXCEPT !.status = "stopped", !.pid = Null]]

\* A cleanup that leaves the handles where they are.
DropNone(procs, ids) == procs

\* pm.processes.delete(id) for every id of ids.
Drop(procs, ids) == [h \in DOMAIN procs \ ids |-> procs[h]]

\* A stopServer that goes on whenever the instance is registered.
StopErrorLax(name, caller) ==
    IF instances[name] = 0 THEN "Instance not running" ELSE ""

\* What stopServer throws before it touches the process; "" if it goes on.
StopError(name, caller) ==
    IF caller = "socket" /\ instances[name] = 0 THEN "Instance does not exist"
    ELSE IF instances[name] = 0 \/ Falsy(objs[instances[name]].pid)
    THEN "Instance not running"
    ELSE LET found == FindByPid(processes, objs[instances[name]].pid)
         IN IF found = 0 \/ ~processes[found].hasProc
            THEN "Process info not found" ELSE ""

\* stopServer once it has found the process: "stop\n" is written to its
\* stdin, the grace timer is armed and the exit listener registered.
StopTask(name, caller) ==
    LET o == instances[name]
    IN Task("stop", name, o, FindByPid(processes, objs[o].pid), objs[o].pid,
            "armed", caller, <<>>, "", 0)

\* POST /instances/:name/stop ("rest") and socket instanceAction "stop".
StopCall(name, caller) ==
    IF StopError(name, caller) # "" THEN Reject
    ELSE /\ Pending(tasks) < MaxTasks
         /\ tasks' = Append(tasks, StopTask(name, caller))
         /\ out' = Quiet
         /\ UNCHANGED <<instances, objs, disk, processes, nextId, os, updates,
                        instanceLogs, probe>>

\* restartServer up to its await of stopServer.
RestartCall(name) ==
    IF StopError(name, "restart") # "" THEN Reject
    ELSE /\ Pending(tasks) < MaxTasks
         /\ tasks' = Append(tasks, StopTask(name, "restart"))
         /\ out' = Quiet
         /\ UNCHANGED <<instances, objs, disk, processes, nextId, os, updates,
                        instanceLogs, probe>>

\* The running account of one step: the instance objects, the calls it
\* suspends, its saves and notifications, and its last response.
Acc(ob, ts, saves, emits, op, res) ==
    [objs |-> ob, tasks |-> ts, saves |-> saves, emits |-> emits,
     op |-> op, res |-> res]

\* A waitUntilStopped that resolves without looking at the status.
WaitCheckEager(st, name, waited) ==
    IF instances[name] = 0
    THEN [st EXCEPT !.op = "restart", !.res = "Instance not found"]
    ELSE [st EXCEPT !.tasks = Append(@, StartTask(name, instances[name], st.objs, "restart")),
                    !.op = "none", !.res = "none"]

\* A waitUntilStopped that has no timeout: it checks again and again.
WaitCheckForever(st, name, waited) ==
    IF instances[name] = 0
    THEN [st EXCEPT !.op = "restart", !.res = "Instance not found"]
    ELSE IF st.objs[instances[name]].status = "stopped"
    THEN [st EXCEPT !.tasks = Append(@, StartTask(name, instances[name], st.objs, "restart")),
                    !.op = "none", !.res = "none"]
    ELSE [st EXCEPT !.tasks = Append(@, Task("poll", name, 0, 0, Null, "none",
                                             "restart", <<>>, "", 0)),
                    !.op = "none", !.res = "none"]

\* check() of waitUntilStopped and, when it resolves, restartServer's call of
\* startServer up to its await.
WaitCheck(st, name, waited) ==
    IF instances[name] = 0
    THEN [st EXCEPT !.op = "restart", !.res = "Instance not found"]
    ELSE IF st.objs[instances[name]].status = "stopped"
    THEN [st EXCEPT !.tasks = Append(@, StartTask(name, instances[name], st.objs, "restart")),
                    !.op = "none", !.res = "none"]
    ELSE IF waited + PollIntervalMs >= RestartTimeoutMs
    THEN [st EXCEPT !.op = "restart", !.res = "did not stop in time"]
    ELSE [st EXCEPT !.tasks = Append(@, Task("poll", name, 0, 0, Null, "none",
                                             "restart", <<>>, "", waited + PollIntervalMs)),
                    !.op = "none", !.res = "none"]

\* A stop whose promise rejects where stopServer resolves it.
Rejected(st, t) == [st EXCEPT !.op = "stop", !.res = "Error"]

\* What runs when the promise of stop task t resolves: the route answers, the
\* socket handler sets the instance now under that name stopped and saves,
\* restartServer goes on to waitUntilStopped.
Resolved(st, t) ==
    IF t.caller = "restart" THEN WaitCheck(st, t.name, 0)
    ELSE IF t.caller = "socket"
    THEN IF instances[t.name] = 0
         THEN [st EXCEPT !.op = "stop", !.res = "TypeError"]
         ELSE [st EXCEPT !.objs = Cleanup(@, instances[t.name]),
                         !.saves = @ + 1, !.emits = @ + 1,
                         !.op = "stop", !.res = "ok"]
    ELSE [st EXCEPT !.op = "stop", !.res = "ok"]

\* The grace timer of stop task i fires: SIGKILL to the child (the pid only),
\* cleanup, resolve.  The exit listener stays registered.
StopTimeout(i) ==
    /\ i \in 1..Len(tasks)
    /\ tasks[i].kind = "stop"
    /\ tasks[i].timer = "armed"
    /\ LET t == tasks[i]
           st == Resolved(Acc(Cleanup(objs, t.obj), <<>>, 1, 0, "none", "none"), t)
       IN /\ os' = Killed(os, t.pid)
          /\ processes' = Drop(processes, {t.hid})
          /\ objs' = st.objs
          /\ disk' = Snapshot(instances, st.objs)
          /\ tasks' = (IF os[t.pid].leader = "gone" THEN RemoveAt(tasks, i)
                       ELSE [tasks EXCEPT ![i].timer = "fired"]) \o st.tasks
          /\ out' = Report(st.op, st.res, st.saves, st.emits)
          /\ UNCHANGED <<instances, nextId, updates, instanceLogs, probe>>

RECURSIVE CleanupAll(_, _)
\* The exit listeners of the stop tasks ts, in order of registration.
CleanupAll(ob, ts) ==
    IF ts = <<>> THEN ob ELSE CleanupAll(Cleanup(ob, Head(ts).obj), Tail(ts))

RECURSIVE ResolveAll(_, _)
\* The continuations of the stop tasks ts whose promise was still pending.
ResolveAll(st, ts) ==
    IF ts = <<>> THEN st
    ELSE ResolveAll(IF Head(ts).timer = "armed" THEN Resolved(st, Head(ts)) ELSE st,
                    Tail(ts))

\* Node reaps the child and emits "exit" on it: every stop call listening on
\* it runs cleanup; startServer itself registers no exit listener.
ExitEvent(p) ==
    /\ p \in DOMAIN os
    /\ os[p].leader = "zombie"
    /\ LET listening == SelectSeq(tasks, LAMBDA t : t.kind = "stop" /\ t.pid = p)
           others == SelectSeq(tasks, LAMBDA t : ~(t.kind = "stop" /\ t.pid = p))
           st == ResolveAll(Acc(CleanupAll(objs, listening), <<>>, Len(listening),
                                0, "none", "none"), listening)
       IN /\ os' = [os EXCEPT ![p].leader = "gone"]
          /\ processes' = Drop(processes, {listening[k].hid : k \in 1..Len(listening)})
          /\ objs' = st.objs
          /\ disk' = IF listening = <<>> THEN disk ELSE Snapshot(instances, st.objs)
          /\ tasks' = others \o st.tasks
          /\ out' = Report(st.op, st.res, st.saves, st.emits)
          /\ UNCHANGED <<instances, nextId, updates, instanceLogs, probe>>

\* The setTimeout(check, interval) of waitUntilStopped fires.
PollTick(i) ==
    /\ i \in 1..Len(tasks)
    /\ tasks[i].kind = "poll"
    /\ LET t == tasks[i]
           st == WaitCheck(Acc(objs, <<>>, 0, 0, "none", "none"),
                           t.name, t.waited)
       IN /\ tasks' = RemoveAt(tasks, i) \o st.tasks
          /\ out' = Report(st.op, st.res, st.saves, st.emits)
          /\ UNCHANGED <<instances, objs, disk, processes, nextId, os, updates,
                         instanceLogs, probe>>

\* socket instanceAction "terminate": of the two declarations of
\* terminateInstance the later one is the function in effect, and it reads
\* the undeclared variable `processes` before it does anything.
TerminateError(name) ==
    IF instances[name] = 0 THEN "Instance does not exist"
    ELSE "ReferenceError: processes is not defined"

TerminateInstance(name) ==
    IF TerminateError(name) # "" THEN Reject
    ELSE UNCHANGED vars

\* ---------------------------------------------------------------- Log Buffer
\* The lines a Log Buffer keeps.
LogCapacity == 400

\* A text is a sequence of characters: line feed, carriage return + line
\* feed (what /\r?\n/ matches), a space, or a printing character, which is
\* a positive number.
LF == -1
CRLF == -2
Space == 0
IsNewline(ch) == ch \in {LF, CRLF}

RECURSIVE SplitFrom(_, _, _)
\* text.split(/\r?\n/), with done the lines closed so far and line the one
\* that is open.
SplitFrom(text, done, line) ==
    IF text = <<>> THEN Append(done, line)
    ELSE IF IsNewline(Head(text)) THEN SplitFrom(Tail(text), Append(done, line), <<>>)
    ELSE SplitFrom(Tail(text), done, Append(line, Head(text)))

Split(text) == SplitFrom(text, <<>>, <<>>)

\* line.trim() === ""
IsBlank(line) == \A i \in 1..Len(line) : line[i] = Space

RECURSIVE TrimBack(_)
\* A trim that drops the newest lines while the buffer is over its capacity.
TrimBack(buf) ==
    IF Len(buf) > LogCapacity THEN TrimBack(SubSeq(buf, 1, Len(buf) - 1)) ELSE buf

RECURSIVE TrimFront(_)
\* while (instanceLogs[name].length > 400) instanceLogs[name].shift()
TrimFront(buf) == IF Len(buf) > LogCapacity THEN TrimFront(Tail(buf)) ELSE buf

\* appendInstanceLog(name, text, io), on the buffer of name.
appendInstanceLog(buf, text) ==
    TrimFront(buf \o SelectSeq(Split(text), LAMBDA line : ~IsBlank(line)))

\* The texts a process writes, with 1, 2, 3 standing for the printing
\* characters of its next lines: one line; three lines among an empty and a
\* blank one, the last not ended; a blank line alone.
Chunks == { <<1, LF>>,
            <<1, CRLF, 2, LF, Space, LF, LF, 3>>,
            <<Space, LF>> }

\* The printing character of a line (0 if it has none), and that of the
\* newest line of a buffer.
LineNo(line) == IF IsBlank(line) THEN 0 ELSE line[Len(line)]
LastNo(buf) == IF buf = <<>> THEN 0 ELSE LineNo(buf[Len(buf)])

\* The chunk with its printing characters numbered on from base: the k-th
\* line written to a buffer carries the number k.
Stamp(chunk, base) ==
    [i \in 1..Len(chunk) |-> IF chunk[i] > 0 THEN base + chunk[i] ELSE chunk[i]]

\* A 'data' event on stdout or stderr of the process of pid p: the listener
\* appends the text to the buffer of the name the process was started under.
Output(p, chunk) ==
    /\ p \in DOMAIN os
    /\ GroupAlive(os, p)
    /\ LastNo(instanceLogs[os[p].name]) + Len(chunk) <= MaxLines
    /\ instanceLogs' = [instanceLogs EXCEPT ![os[p].name] =
                          appendInstanceLog(@, Stamp(chunk, LastNo(@)))]
    /\ out' = Quiet
    /\ UNCHANGED <<instances, objs, disk, processes, nextId, os, tasks, updates,
                   probe>>

\* ------------------------------------------------------------ specification
\* The names are interchangeable: the first instance registered is "alpha".
FirstIsAlpha(n) == objs = <<>> => n # "beta"

\* What a client may send as the fields of a registration, "" and <<>> being
\* a field that is empty or missing.
NameFields == Names \cup {""}
DirFields == Dirs \cup {""}
CommandFields == ServerLines \cup {<<>>}

Next ==
    \/ \E n \in Names : TerminateInstance(n)
    \/ \E n \in NameFields, d \in DirFields, c \in CommandFields :
          FirstIsAlpha(n) /\ Register(n, d, c)
    \/ \E n \in Names, m \in Names, d \in Dirs, c \in ServerLines :
          UpdateInstanceSettings(n, m, d, c)
    \/ Tick
    \/ \E n \in Names : StartCall(n)
    \/ \E i \in 1..MaxSlots, exists \in BOOLEAN, outcome \in SpawnOutcomes,
          forks \in BOOLEAN :
          (outcome # "ok" => ~forks) /\ StartSpawn(i, exists, outcome, forks)
    \/ \E n \in Names, caller \in {"rest", "socket"} : StopCall(n, caller)
    \/ \E n \in Names : RestartCall(n)
    \/ \E i \in 1..MaxSlots : StopTimeout(i)
    \/ \E i \in 1..MaxSlots : PollTick(i)
    \/ \E p \in DOMAIN os : ProcExit(p)
    \/ \E p \in DOMAIN os : LeaderKilled(p)
    \/ \E p \in DOMAIN os : OrphanExit(p)
    \/ \E p \in DOMAIN os : ExitEvent(p)

Spec == Init /\ [][Next]_vars

\* The Command Gate: one instance, registered with any of the command lines,
\* started and stopped.
NextGate ==
    \/ \E d \in Dirs, c \in CommandLines : Register("alpha", d, c)
    \/ Tick
    \/ StartCall("alpha")
    \/ \E i \in 1..MaxSlots, exists \in BOOLEAN, outcome \in SpawnOutcomes,
          forks \in BOOLEAN :
          (outcome # "ok" => ~forks) /\ StartSpawn(i, exists, outcome, forks)
    \/ StopCall("alpha", "rest")
    \/ \E i \in 1..MaxSlots : StopTimeout(i)
    \/ \E p \in DOMAIN os : ProcExit(p)
    \/ \E p \in DOMAIN os : ExitEvent(p)

SpecGate == Init /\ [][NextGate]_vars

\* The supervisor started again on the instances.json of an earlier run.
\* OldPid is the pid that file records for alpha: of a process the earlier
\* run spawned detached, which the new ProcessManager holds no handle for.
OldPid == PidOf(0)

\* An initial check that marks a dead instance stopped and keeps its pid.
InitialCheckKeepsPid(inst, osState) ==
    IF ~Falsy(inst.pid) /\ inst.pid \in DOMAIN osState
                        /\ osState[inst.pid].leader # "gone"
    THEN [inst EXCEPT !.status = "running"]
    ELSE [inst EXCEPT !.status = "stopped"]

\* The initial instance check, on one instance as read from the file.
InitialCheck(inst, osState) ==
    IF ~Falsy(inst.pid) /\ inst.pid \in DOMAIN osState
                        /\ osState[inst.pid].leader # "gone"
    THEN [inst EXCEPT !.status = "running"]
    ELSE [inst EXCEPT !.status = "stopped", !.pid = Null]

\* The files an earlier run can leave (alpha stopped, or running as OldPid)
\* and what became of its process since.
InitReload ==
    /\ instances = [n \in Names |-> IF n = "alpha" THEN 1 ELSE 0]
    /\ os \in {<<>>} \cup {OldPid :> NewProc(forks, 1, "alpha") : forks \in BOOLEAN}
    /\ \E status \in {"running", "stopped"}, pid \in {OldPid, Null} :
          objs = <<InitialCheck([name |-> "alpha", workingDir |-> "/srv",
                                 command |-> <<"run.sh">>, status |-> status,
                                 pid |-> pid], os)>>
    /\ disk = Snapshot(instances, objs)
    /\ processes = <<>>
    /\ nextId = 1
    /\ tasks = <<>>
    /\ updates = 0
    /\ out = Report("boot", "ok", 1, 0)
    /\ instanceLogs = [n \in Names |-> <<>>]
    /\ probe = NoProbe

NextReload ==
    \/ \E n \in Names, d \in Dirs, c \in ServerLines : Register(n, d, c)
    \/ Tick
    \/ \E n \in Names : StartCall(n)
    \/ \E i \in 1..MaxSlots, forks \in BOOLEAN :
          StartSpawn(i, FALSE, "ok", forks)
    \/ \E n \in Names, caller \in {"rest", "socket"} : StopCall(n, caller)
    \/ \E n \in Names : RestartCall(n)
    \/ \E i \in 1..MaxSlots : StopTimeout(i)
    \/ \E p \in DOMAIN os : ProcExit(p)
    \/ \E p \in DOMAIN os : ExitEvent(p)

SpecReload == InitReload /\ [][NextReload]_vars

\* The supervisor with the timers and awaits it can rely on: the grace timer
\* of a stop fires, the timer of waitUntilStopped fires, fs.pathExists and
\* spawn return.  Nothing is assumed of the workload: it may never exit.
\* A restart is only asked for while a spawn attempt is left for it.  The
\* supervisor starts on the instances.json of an earlier run with alpha
\* still running, an instance that no stop of this run can reach.
GraceTimerFires == \E i \in 1..MaxSlots : StopTimeout(i)
PollTimerFires == \E i \in 1..MaxSlots : PollTick(i)
SpawnReturns ==
    \E i \in 1..MaxSlots, outcome \in SpawnOutcomes, forks \in BOOLEAN :
       (outcome # "ok" => ~forks) /\ StartSpawn(i, FALSE, outcome, forks)

NextLive ==
    \/ \E d \in Dirs, c \in ServerLines : Register("beta", d, c)
    \/ \E n \in Names, m \in Names, d \in Dirs, c \in ServerLines :
          UpdateInstanceSettings(n, m, d, c)
    \/ Tick
    \/ \E n \in Names : StartCall(n)
    \/ SpawnReturns
    \/ \E n \in Names, caller \in {"rest", "socket"} : StopCall(n, caller)
    \/ \E n \in Names : nextId <= MaxSpawns /\ RestartCall(n)
    \/ GraceTimerFires
    \/ PollTimerFires
    \/ \E p \in DOMAIN os : ProcExit(p)
    \/ \E p \in DOMAIN os : ExitEvent(p)

InitLive == InitReload /\ objs[1].status = "running"

SpecLive ==
    /\ InitLive
    /\ [][NextLive]_vars
    /\ WF_vars(GraceTimerFires)
    /\ WF_vars(PollTimerFires)
    /\ WF_vars(SpawnReturns)

\* The start of the supervisor as a step: the file is read, every instance
\* in it checked against the host, and the result saved.  Before the step
\* disk is the file an earlier run left, with any status and pid for each
\* name, and os the processes of that run that are still alive.
OlderPid == OldPid - 1
Down == Report("down", "none", 0, 0)

FileEntries(n, pid) ==
    {NoInst} \cup [name : {n}, workingDir : Dirs, command : ServerLines,
                   status : {"running", "stopped"}, pid : {Null, pid}]

InitBoot ==
    /\ instances = [n \in Names |-> 0]
    /\ objs = <<>>
    /\ \E a \in FileEntries("alpha", OldPid), b \in FileEntries("beta", OlderPid) :
          disk = [n \in Names |-> IF n = "alpha" THEN a ELSE b]
    /\ \E alive \in SUBSET {OldPid, OlderPid} :
          os = [p \in alive |-> NewProc(FALSE, 0, "")]
    /\ processes = <<>>
    /\ nextId = 1
    /\ tasks = <<>>
    /\ updates = 0
    /\ out = Down
    /\ instanceLogs = [n \in Names |-> <<>>]
    /\ probe = NoProbe

Boot ==
    /\ out = Down
    /\ LET loaded == SelectSeq(<<"alpha", "beta">>,
                               LAMBDA n : disk[n].status # "absent")
       IN /\ objs' = [k \in 1..Len(loaded) |-> InitialCheck(disk[loaded[k]], os)]
          /\ instances' = [n \in Names |->
                             IF \E k \in 1..Len(loaded) : loaded[k] = n
                             THEN CHOOSE k \in 1..Len(loaded) : loaded[k] = n
                             ELSE 0]
    /\ disk' = Snapshot(instances', objs')
    /\ out' = Report("boot", "ok", 1, 0)
    /\ UNCHANGED <<processes, nextId, os, tasks, updates, instanceLogs, probe>>

NextBoot ==
    \/ Boot
    \/ out # Down /\ Tick
    \/ \E p \in DOMAIN os : ProcExit(p)
    \/ \E p \in DOMAIN os : ExitEvent(p)

SpecBoot == InitBoot /\ [][NextBoot]_vars

\* The ProcessManager by itself: handles of every kind, made by starts of
\* one instance, and the calls of its interface on them.
NextManager ==
    \/ \E d \in Dirs, c \in ServerLines : Register("alpha", d, c)
    \/ StartCall("alpha")
    \/ SpawnReturns
    \/ \E p \in DOMAIN os : ProcExit(p)
    \/ \E p \in DOMAIN os : ExitEvent(p)
    \/ \E id \in HandleIds, effect \in KillEffects : killProcess(id, effect)
    \/ updateStats
    \/ \E i \in 1..MaxSlots, outcome \in ProbeOutcomes : ProbeSettles(i, outcome)

SpecManager == Init /\ [][NextManager]_vars

\* The supervisor on a disk that may refuse a write: fs.writeFileSync
\* throws out of saveInstances, which catches nothing.  Thrown inside an
\* async function the exception rejects the call; thrown inside a timer
\* callback or an event listener it is an uncaught exception, on which Node
\* ends the process, as server.js installs no handler for it.
Up == out.res # "uncaught"

\* The setInterval callback finds a change and cannot save it.
TickDiskFull ==
    LET keys == {n \in Names : instances[n] # 0}
    IN /\ Up
       /\ \E n \in keys :
             WasRunning(objs[instances[n]]) # IsRunningNow(objs[instances[n]])
       /\ objs' = [o \in 1..Len(objs) |->
                     IF \E n \in keys : instances[n] = o
                     THEN Reconciled(objs[o]) ELSE objs[o]]
       /\ out' = Report("tick", "uncaught", 0, 0)
       /\ UNCHANGED <<instances, disk, processes, nextId, os, tasks, updates,
                      instanceLogs, probe>>

\* startServer has spawned the process and cannot save: the call rejects.
StartSpawnDiskFull(i, forks) ==
    /\ Up
    /\ i \in 1..Len(tasks)
    /\ tasks[i].kind = "start"
    /\ nextId <= MaxSpawns
    /\ LET t == tasks[i]
           procInfo == spawnProcess(nextId, CmdToRun(t, FALSE), Tail(t.cmd), "ok")
       IN /\ ~Falsy(procInfo.pid)
          /\ processes' = processes @@ (nextId :> procInfo)
          /\ nextId' = nextId + 1
          /\ os' = os @@ (procInfo.pid :> NewProc(forks, t.obj, t.name))
          /\ objs' = [objs EXCEPT ![t.obj] =
                        [@ EXCEPT !.pid = procInfo.pid, !.status = "running"]]
          /\ out' = Report(OpOf(t), "save failed", 0, 0)
          /\ tasks' = RemoveAt(tasks, i)
          /\ UNCHANGED <<instances, disk, updates, instanceLogs, probe>>

\* The exit listener of a stop call runs cleanup and cannot save: resolve()
\* is not reached and the listeners registered after it do not run.
ExitEventDiskFull(p) ==
    /\ Up
    /\ p \in DOMAIN os
    /\ os[p].leader = "zombie"
    /\ LET listening == SelectSeq(tasks, LAMBDA t : t.kind = "stop" /\ t.pid = p)
       IN /\ listening # <<>>
          /\ objs' = Cleanup(objs, Head(listening).obj)
          /\ processes' = Drop(processes, {Head(listening).hid})
    /\ os' = [os EXCEPT ![p].leader = "gone"]
    /\ out' = Report("stop", "uncaught", 0, 0)
    /\ UNCHANGED <<instances, disk, nextId, tasks, updates, instanceLogs, probe>>

NextDisk ==
    \/ \E d \in Dirs, c \in ServerLines : Up /\ Register("alpha", d, c)
    \/ Up /\ Tick
    \/ TickDiskFull
    \/ Up /\ StartCall("alpha")
    \/ \E i \in 1..MaxSlots, forks \in BOOLEAN : Up /\ StartSpawn(i, FALSE, "ok", forks)
    \/ \E i \in 1..MaxSlots, forks \in BOOLEAN : StartSpawnDiskFull(i, forks)
    \/ Up /\ StopCall("alpha", "rest")
    \/ \E i \in 1..MaxSlots : Up /\ StopTimeout(i)
    \/ \E p \in DOMAIN os : ProcExit(p)
    \/ \E p \in DOMAIN os : Up /\ ExitEvent(p)
    \/ \E p \in DOMAIN os : ExitEventDiskFull(p)

SpecDisk == Init /\ [][NextDisk]_vars

\* The requests put to the Command Gate: executables and argument lists.
GateCommands == {"rm", "RM", "ls", "shutdown", "SHUTDOWN", "dd", "DD", "/srv/RM"}
GateWords == {"-rf", "-RF", "/"}
GateArgs ==
    {<<>>} \cup {<<a>> : a \in GateWords}
           \cup {<<a, b>> : a \in GateWords, b \in GateWords}

\* pm.isCommandWithArgsDisabled(command, args), called once on the request.
AskGate ==
    /\ probe.verdict = "none"
    /\ probe' = [probe EXCEPT !.verdict =
                   IF isCommandWithArgsDisabled(probe.command, probe.args)
                   THEN "disabled" ELSE "allowed"]
    /\ UNCHANGED <<instances, objs, disk, processes, nextId, os, tasks, updates,
                   out, instanceLogs>>

InitProbe ==
    /\ instances = [n \in Names |-> 0]
    /\ objs = <<>>
    /\ disk = [n \in Names |-> NoInst]
    /\ processes = <<>>
    /\ nextId = 1
    /\ os = <<>>
    /\ tasks = <<>>
    /\ updates = 0
    /\ out = Report("boot", "ok", 1, 0)
    /\ instanceLogs = [n \in Names |-> <<>>]
    /\ probe \in [command : GateCommands, args : GateArgs, verdict : {"none"}]

\* The Command Gate alone, asked about one request.
SpecProbe == InitProbe /\ [][AskGate]_vars

\* The same output delivered in different chunks: the text a process writes
\* reaches the stdout listener of alpha in one 'data' event and that of beta
\* in two, cut at any position.  probe.args holds the text still to come.
TextChars == {1, 2, Space, LF}
Texts == UNION {[1..n -> TextChars] : n \in 1..MaxText}

InitChunks ==
    /\ instances = [n \in Names |-> 0]
    /\ objs = <<>>
    /\ disk = [n \in Names |-> NoInst]
    /\ processes = <<>>
    /\ nextId = 1
    /\ os = <<>>
    /\ tasks = <<>>
    /\ updates = 0
    /\ out = Report("boot", "ok", 1, 0)
    /\ instanceLogs = [n \in Names |-> <<>>]
    /\ probe \in [command : {"text"}, args : Texts, verdict : {"none"}]

\* One 'data' event with the whole text.
DataWhole ==
    /\ probe.verdict = "none"
    /\ instanceLogs' = [instanceLogs EXCEPT !["alpha"] =
                          appendInstanceLog(@, probe.args)]
    /\ probe' = [probe EXCEPT !.verdict = "whole"]
    /\ UNCHANGED <<instances, objs, disk, processes, nextId, os, tasks, updates,
                   out>>

\* A 'data' event with the first k characters of the text.
DataHead(k) ==
    /\ probe.verdict = "whole"
    /\ k \in 0..Len(probe.args)
    /\ instanceLogs' = [instanceLogs EXCEPT !["beta"] =
                          appendInstanceLog(@, SubSeq(probe.args, 1, k))]
    /\ probe' = [probe EXCEPT !.args = SubSeq(@, k + 1, Len(@)),
                              !.verdict = "head"]
    /\ UNCHANGED <<instances, objs, disk, processes, nextId, os, tasks, updates,
                   out>>

\* A 'data' event with the rest of the text.
DataTail ==
    /\ probe.verdict = "head"
    /\ instanceLogs' = [instanceLogs EXCEPT !["beta"] =
                          appendInstanceLog(@, probe.args)]
    /\ probe' = [probe EXCEPT !.args = <<>>, !.verdict = "tail"]
    /\ UNCHANGED <<instances, objs, disk, processes, nextId, os, tasks, updates,
                   out>>

NextChunks ==
    \/ DataWhole
    \/ \E k \in 0..MaxText : DataHead(k)
    \/ DataTail

SpecChunks == InitChunks /\ [][NextChunks]_vars

\* The Log Buffer: one instance whose processes write, and its removal.
NextLog ==
    \/ TerminateInstance("alpha")
    \/ \E d \in Dirs, c \in ServerLines : Register("alpha", d, c)
    \/ StartCall("alpha")
    \/ \E i \in 1..MaxSlots : StartSpawn(i, FALSE, "ok", FALSE)
    \/ \E p \in DOMAIN os, chunk \in Chunks : Output(p, chunk)
    \/ \E p \in DOMAIN os : ProcExit(p)
    \/ \E p \in DOMAIN os : ExitEvent(p)

SpecLog == Init /\ [][NextLog]_vars

\* ------------------------------------------------------------- properties
\* The instance objects the Registry holds.
Registered == {instances[n] : n \in {m \in Names : instances[m] # 0}}

\* C1: after every step of the supervisor (lifecycle call, exit callback,
\* reconciliation tick) an instance of the Registry has a pid if and only if
\* its status is "running".
PidIffRunning ==
    \A o \in Registered : (objs[o].pid # Null) <=> (objs[o].status = "running")

\* A tick has just saved; one instance is running on a spawned process, and
\* another, whose process died and was reaped, stands stopped.
PidIffRunningWitness ==
    /\ \E o \in Registered : objs[o].status = "running" /\ objs[o].pid \in DOMAIN os
    /\ \E o \in Registered :
          /\ objs[o].status = "stopped"
          /\ \E p \in DOMAIN os : os[p].obj = o /\ os[p].leader = "gone"
    /\ out.op = "tick"
    /\ out.saves = 1

\* The instance object a start task works on has a process the supervisor
\* tracks: a pid, and a handle of the ProcessManager that carries it.
Tracked(o) == objs[o].pid # Null /\ FindByPid(processes, objs[o].pid) # 0

\* C2: during restart the new process is never spawned while a process that
\* was spawned for the instance before still runs, whether the old one left
\* by itself or was force-killed when the grace period ran out.
RestartSpawnsAfterOldIsGone ==
    [][\A i \in 1..MaxSlots, exists \in BOOLEAN, forks \in BOOLEAN :
          (StartSpawn(i, exists, "ok", forks) /\ tasks[i].caller = "restart")
          => \A p \in DOMAIN os : os[p].obj = tasks[i].obj => ~GroupAlive(os, p)]_vars

\* C3: a start on an instance that has a tracked process fails: nothing is
\* spawned, and the instance keeps its pid and status.
StartOnRunningFails ==
    [][\A i \in 1..MaxSlots, exists \in BOOLEAN, outcome \in SpawnOutcomes,
         forks \in BOOLEAN :
          (StartSpawn(i, exists, outcome, forks) /\ Tracked(tasks[i].obj))
          => os' = os /\ processes' = processes /\ objs' = objs]_vars

\* C4: a start whose resolved command the Command Gate refuses spawns
\* nothing, leaves the instance as it was (not running, no pid), and the
\* handle it creates records exactly one error.
RefusedStartRecordsOneError ==
    [][\A i \in 1..MaxSlots, exists \in BOOLEAN, outcome \in SpawnOutcomes,
         forks \in BOOLEAN :
          (/\ StartSpawn(i, exists, outcome, forks)
           /\ isCommandWithArgsDisabled(CmdToRun(tasks[i], exists), Tail(tasks[i].cmd)))
          => /\ os' = os
             /\ objs' = objs
             /\ processes'[nextId].pid = Null
             /\ Len(processes'[nextId].errors) = 1]_vars

\* C5: when the grace timer of a stop fires, the process and its whole group
\* are killed, and the instance is stopped with no pid.
GraceTimeoutKillsGroup ==
    [][\A i \in 1..MaxSlots :
          StopTimeout(i)
          => /\ ~GroupAlive(os', tasks[i].pid)
             /\ objs'[tasks[i].obj].status = "stopped"
             /\ objs'[tasks[i].obj].pid = Null]_vars

\* C6: after terminate(name) the Registry has no instance of that name (so a
\* start of it fails with "Instance not found"), whether or not a process of
\* it was tracked.
TerminateRemovesInstance ==
    [][\A n \in Names : TerminateInstance(n) => instances'[n] = 0]_vars

\* C7: when the process of a running instance ends by itself (no stop call
\* is waiting for it), the exit callback sets the instance stopped, clears
\* its pid and saves, in the step that delivers the exit.
OwnExitStopsInstance ==
    [][\A p \in DOMAIN os, o \in Registered :
          (/\ ExitEvent(p)
           /\ objs[o].pid = p
           /\ objs[o].status = "running"
           /\ \A j \in 1..Len(tasks) : ~(tasks[j].kind = "stop" /\ tasks[j].pid = p))
          => /\ objs'[o].status = "stopped"
             /\ objs'[o].pid = Null
             /\ out'.saves = 1
             /\ disk' = Snapshot(instances', objs')]_vars

\* The instances of the Registry that are marked running and whose pid the
\* liveness probe finds dead.
DeadRunning ==
    {o \in Registered : objs[o].status = "running" /\ ~isPidRunning(objs[o].pid)}

\* C8: one reconciliation tick sets every running instance whose pid is dead
\* to stopped with no pid, and saves exactly once and notifies exactly once.
TickReconcilesOnce ==
    [][(Tick /\ DeadRunning # {})
       => /\ \A o \in DeadRunning : objs'[o].status = "stopped" /\ objs'[o].pid = Null
          /\ out'.saves = 1
          /\ out'.emits = 1
          /\ disk' = Snapshot(instances', objs')]_vars

\* A tick has just saved and notified once; two instances stand stopped whose
\* processes are dead and reaped while their handles are still tracked (no
\* stop call cleaned up after them), and the file has both.
TickReconcilesOnceWitness ==
    /\ out = Report("tick", "ok", 1, 1)
    /\ Cardinality({o \in Registered :
                      /\ objs[o].status = "stopped"
                      /\ objs[o].pid = Null
                      /\ \E p \in DOMAIN os :
                            /\ os[p].obj = o
                            /\ os[p].leader = "gone"
                            /\ FindByPid(processes, p) # 0}) = 2
    /\ disk = Snapshot(instances, objs)

\* C9: the status of an instance is always stopped, running or terminated;
\* it is stopped when the instance is registered; and it only ever changes
\* from stopped to running, from running to stopped, or from running to
\* terminated.
StatusLifecycle ==
    /\ [](\A o \in 1..Len(objs) :
            objs[o].status \in {"stopped", "running", "terminated"})
    /\ [][\A o \in 1..Len(objs') :
             IF o > Len(objs) THEN objs'[o].status = "stopped"
             ELSE \/ objs'[o].status = objs[o].status
                  \/ <<objs[o].status, objs'[o].status>> \in
                        { <<"stopped", "running">>, <<"running", "stopped">>,
                          <<"running", "terminated">> }]_vars

\* An instance that was registered, ran, and was found dead by the tick, next
\* to one that runs.
StatusLifecycleWitness ==
    /\ out.op = "tick"
    /\ \E o \in Registered :
          /\ objs[o].status = "stopped"
          /\ \E p \in DOMAIN os : os[p].obj = o /\ FindByPid(processes, p) # 0
    /\ \E o \in Registered : objs[o].status = "running"

\* C10: whenever no mutating call is in flight, instances.json holds what the
\* Registry holds in memory: every operation that changes the Registry has
\* saved before it answers.
DiskMatchesMemory ==
    Pending(tasks) = 0 => disk = Snapshot(instances, objs)

\* The numbers first, first + 1, ..., last.
Run(first, last) == [i \in 1..(last - first + 1) |-> first + i - 1]

\* C11: a Log Buffer never holds more than 400 lines, and it holds exactly
\* the most recent non-empty lines written to it, in the order they came (of
\* k lines written, the last 400, or all k if there are fewer); a line
\* appended to a full buffer takes the place of the oldest one only.
LogKeepsNewestLines ==
    /\ [](\A n \in Names :
            LET buf == instanceLogs[n]
                numbers == [i \in 1..Len(buf) |-> LineNo(buf[i])]
            IN /\ Len(buf) <= 400
               /\ \A i \in 1..Len(buf) : buf[i] = <<numbers[i]>>
               /\ numbers = Run(LastNo(buf) - Len(buf) + 1, LastNo(buf))
               /\ Len(buf) < 400 => Len(buf) = LastNo(buf))
    /\ [][\A p \in DOMAIN os :
             (Output(p, <<1, LF>>) /\ Len(instanceLogs[os[p].name]) = 400)
             => instanceLogs'[os[p].name] =
                  Append(Tail(instanceLogs[os[p].name]),
                         <<LastNo(instanceLogs[os[p].name]) + 1>>)]_vars

\* A full buffer that has dropped its first lines: it holds 400 lines, the
\* oldest of them the 4th that was written.
LogKeepsNewestLinesWitness ==
    /\ Len(instanceLogs["alpha"]) = 400
    /\ instanceLogs["alpha"][1] = <<4>>
    /\ LastNo(instanceLogs["alpha"]) = 403

\* Two strings are equal but for the case of their letters.
SameIgnoringCase(a, b) == ToLower(a) = ToLower(b)

\* Some rule of the denylist names the command, ignoring case, and its
\* argument list, if it has one, is an ordered prefix of args, ignoring case.
SomeRuleCovers(command, args) ==
    \E k \in 1..Len(DisabledCommands) :
       LET rule == DisabledCommands[k]
       IN /\ SameIgnoringCase(rule.command, command)
          /\ \/ "args" \notin DOMAIN rule
             \/ /\ Len(rule.args) <= Len(args)
                /\ \A i \in 1..Len(rule.args) : SameIgnoringCase(rule.args[i], args[i])

\* C12: isDisabled(command, args) is true exactly when some denylist rule
\* has that command, ignoring case, and an argument list that is an ordered
\* prefix of args, ignoring case (a rule with an empty or no argument list
\* covers any args); for every other request it is false.
GateVerdictIsPrefixMatch ==
    probe.verdict # "none"
    => (probe.verdict = "disabled" <=> SomeRuleCovers(probe.command, probe.args))

\* The gate has refused RM -RF /: another case than the rule's, and one
\* argument more than its prefix.
GateVerdictIsPrefixMatchWitness ==
    probe = [command |-> "RM", args |-> <<"-RF", "/">>, verdict |-> "disabled"]

\* C13: a registration whose name is taken, or one of whose fields is
\* empty, fails and leaves the Registry (and its file) as it was; any other
\* adds exactly one instance, under its name, stopped and without pid.
RegisterContract ==
    [][\A n \in NameFields, d \in DirFields, c \in CommandFields :
          Register(n, d, c)
          => IF n = "" \/ d = "" \/ c = <<>> \/ instances[n] # 0
             THEN out' = Report("rejected", "error", 0, 0)
                  /\ UNCHANGED <<instances, objs, disk>>
             ELSE /\ instances[n] = 0
                  /\ instances'[n] = Len(objs')
                  /\ \A m \in Names \ {n} : instances'[m] = instances[m]
                  /\ objs' = Append(objs, [name |-> n, workingDir |-> d,
                                           command |-> c, status |-> "stopped",
                                           pid |-> Null])
                  /\ disk' = Snapshot(instances', objs')]_vars

\* A second instance has just been registered next to the first.
RegisterContractWitness ==
    /\ out = Report("register", "ok", 1, 0)
    /\ \A n \in Names : instances[n] # 0
    /\ Len(objs) = 2
    /\ objs[2].status = "stopped"
    /\ objs[2].pid = Null

\* C14: a stop of an instance that is absent, has no pid, or whose pid no
\* handle of the supervisor carries, fails; no stop line is written and no
\* timer armed, no process is signalled, and the Registry, its file and the
\* handle set stay as they were.
StopRefusedTouchesNothing ==
    [][\A n \in Names, caller \in {"rest", "socket"} :
          /\ StopCall(n, caller)
          /\ \/ instances[n] = 0
             \/ Falsy(objs[instances[n]].pid)
             \/ FindByPid(processes, objs[instances[n]].pid) = 0
          => /\ out' = Report("rejected", "error", 0, 0)
             /\ UNCHANGED <<instances, objs, disk, processes, nextId, os,
                            tasks>>]_vars

\* A stop has been refused for an instance whose pid no handle carries
\* any more.
StopRefusedTouchesNothingWitness ==
    /\ out = Report("rejected", "error", 0, 0)
    /\ \E n \in Names :
          /\ instances[n] # 0
          /\ ~Falsy(objs[instances[n]].pid)
          /\ FindByPid(processes, objs[instances[n]].pid) = 0

\* C15: when the process of a pending stop exits before the grace timer
\* fires, the instance is stopped and has no pid, the handle of the process
\* is gone from the supervisor, the file shows the Registry, the call has
\* answered (the last answer of the step is its own when no other call
\* waited for the same exit), and its timer is cleared: no signal is sent
\* to the process, at the exit or later.
GracefulStopCleansUp ==
    [][\A p \in DOMAIN os :
          ExitEvent(p)
          => \A k \in 1..Len(tasks) :
                tasks[k].kind = "stop" /\ tasks[k].pid = p
                                      /\ tasks[k].timer = "armed"
                => /\ objs'[tasks[k].obj].status = "stopped"
                   /\ objs'[tasks[k].obj].pid = Null
                   /\ tasks[k].hid \notin DOMAIN processes'
                   /\ disk' = Snapshot(instances', objs')
                   /\ (/\ tasks[k].caller = "rest"
                       /\ \A j \in 1..Len(tasks) :
                             tasks[j].kind = "stop" /\ tasks[j].pid = p => j = k)
                      => out'.op = "stop" /\ out'.res = "ok"
                   /\ \A j \in 1..Len(tasks') :
                         ~(tasks'[j].kind = "stop" /\ tasks'[j].pid = p)
                   /\ os' = [os EXCEPT ![p].leader = "gone"]]_vars

\* A stop has answered after the process exited: the first process is
\* reaped, its handle gone, its instance stopped, nothing pending.
GracefulStopCleansUpWitness ==
    /\ out = Report("stop", "ok", 1, 0)
    /\ PidOf(1) \in DOMAIN os
    /\ os[PidOf(1)].leader = "gone"
    /\ 1 \notin DOMAIN processes
    /\ objs[os[PidOf(1)].obj].status = "stopped"
    /\ objs[os[PidOf(1)].obj].pid = Null
    /\ tasks = <<>>

\* C16: a start of a registered instance is accepted however often the
\* instance was started and stopped before, and when the host starts the
\* process the instance is running under the pid of that process, which is
\* a new one, and the file shows it.
StartAfterStopSucceeds ==
    [][/\ \A n \in Names :
             StartCall(n) /\ instances[n] # 0
             => tasks' = Append(tasks, StartTask(n, instances[n], objs, "api"))
       /\ \A i \in 1..MaxSlots, exists \in BOOLEAN, forks \in BOOLEAN :
             StartSpawn(i, exists, "ok", forks)
             => /\ objs'[tasks[i].obj].status = "running"
                /\ objs'[tasks[i].obj].pid = PidOf(nextId)
                /\ PidOf(nextId) \notin DOMAIN os
                /\ PidOf(nextId) \in DOMAIN os'
                /\ os'[PidOf(nextId)].leader = "alive"
                /\ processes'[nextId].pid = PidOf(nextId)
                /\ disk' = Snapshot(instances', objs')
                /\ out'.res = "ok"]_vars

\* The second start of an instance has succeeded after its first process
\* was stopped and reaped.
StartAfterStopSucceedsWitness ==
    /\ out = Report("start", "ok", 1, 1)
    /\ {PidOf(1), PidOf(2)} \subseteq DOMAIN os
    /\ os[PidOf(1)].obj = os[PidOf(2)].obj
    /\ os[PidOf(1)].leader = "gone"
    /\ 1 \notin DOMAIN processes
    /\ objs[os[PidOf(2)].obj].status = "running"
    /\ objs[os[PidOf(2)].obj].pid = PidOf(2)

\* C17: terminate(name) on an instance whose process the supervisor tracks
\* kills that process without writing the stop line first, and when it
\* returns no handle of the supervisor carries the pid of that process.
TerminateKillsAndReaps ==
    [][\A n \in Names :
          (/\ TerminateInstance(n)
           /\ instances[n] # 0
           /\ Tracked(instances[n])
           /\ os[objs[instances[n]].pid].leader = "alive")
          => /\ os'[objs[instances[n]].pid].leader # "alive"
             /\ FindByPid(processes', objs[instances[n]].pid) = 0
             /\ tasks' = tasks]_vars

\* C18: when terminate removes an instance its Log Buffer goes with it: the
\* buffer of that name is empty afterwards, so that a later read, also after
\* the name is registered again, shows no line written before the terminate.
TerminateClearsLog ==
    [][\A n \in Names : TerminateInstance(n) => instanceLogs'[n] = <<>>]_vars

\* C19: every spawn attempt, whether the host starts the process, the
\* Command Gate refuses it or the spawn fails, stores a handle under a new
\* id, which the handle carries and by which its errors can be read; the
\* ids grow by one per attempt and every handle, also after others were
\* reaped, has an id below the next one to be given.
HandleIdsAreFresh ==
    [][/\ \A i \in 1..MaxSlots, exists \in BOOLEAN, outcome \in SpawnOutcomes,
             forks \in BOOLEAN :
             StartSpawn(i, exists, outcome, forks)
             => /\ nextId \notin DOMAIN processes
                /\ \A h \in DOMAIN processes : h < nextId
                /\ DOMAIN processes' = DOMAIN processes \cup {nextId}
                /\ processes'[nextId].id = nextId
                /\ Falsy(processes'[nextId].pid) /\ ~processes'[nextId].hasProc
                   => processes'[nextId].errors # <<>>
                /\ nextId' = nextId + 1
       /\ nextId' >= nextId
       /\ \A h \in DOMAIN processes' :
             h < nextId' /\ processes'[h].id = h]_vars

\* The handle of the first attempt has been reaped and the second attempt,
\* which failed, has its handle under id 2 with the error in it.
HandleIdsAreFreshWitness ==
    /\ nextId = 3
    /\ DOMAIN processes = {2}
    /\ processes[2].id = 2
    /\ processes[2].errors # <<>>

\* The calls of startServer that restarts of name have made and that have
\* not spawned yet, and the restarts of name that still wait: for their stop
\* to resolve or for the next check of waitUntilStopped.
RestartStarts(ts, name) ==
    Len(SelectSeq(ts, LAMBDA t : t.kind = "start" /\ t.caller = "restart"
                                                  /\ t.name = name))
RestartWaits(ts, name) ==
    Len(SelectSeq(ts, LAMBDA t : /\ t.caller = "restart"
                                 /\ t.name = name
                                 /\ \/ t.kind = "poll"
                                    \/ t.kind = "stop" /\ t.timer = "armed"))

\* A step in which a restart of name calls startServer: the call goes on to
\* its await, or it throws because the name is not registered.
RestartCallsStart(name) ==
    \/ RestartStarts(tasks', name) > RestartStarts(tasks, name)
    \/ /\ RestartWaits(tasks', name) < RestartWaits(tasks, name)
       /\ out'.op = "restart"
       /\ out'.res = "Instance not found"

\* C20 as stated: restart(name) calls start only when the stop has
\* completed and the Registry shows the instance of that name stopped.
RestartStartsOnlyWhenStopped ==
    [][\A n \in Names :
          RestartCallsStart(n)
          => /\ instances[n] # 0
             /\ objs'[instances[n]].status = "stopped"]_vars

\* C20, amended: restart(name) calls start only when its stop has completed
\* and the Registry shows the instance of that name stopped or holds no
\* instance of that name any more, and in the latter case start fails and
\* nothing is spawned (every restart of the name that ends its wait in a
\* step has the same outcome, and the failure is the last answer of the
\* step when no other call was pending); a restart of an instance that is not running fails
\* and changes nothing; a restart whose instance is registered and not
\* stopped when the time allowed has passed fails with the timeout and
\* does not call start.
RestartWaitsForStopped ==
    [][\A n \in Names :
          /\ RestartCall(n) /\ StopError(n, "restart") # ""
             => /\ out' = Report("rejected", "error", 0, 0)
                /\ UNCHANGED <<instances, objs, disk, processes, nextId, os,
                               tasks>>
          /\ RestartStarts(tasks', n) > RestartStarts(tasks, n)
             => /\ RestartWaits(tasks', n) < RestartWaits(tasks, n)
                /\ instances[n] # 0
                /\ objs'[instances[n]].status = "stopped"
          /\ RestartWaits(tasks', n) < RestartWaits(tasks, n)
             => \/ /\ RestartStarts(tasks', n) - RestartStarts(tasks, n)
                         = RestartWaits(tasks, n) - RestartWaits(tasks', n)
                   /\ nextId' = nextId
                \/ /\ instances[n] = 0
                   /\ Pending(tasks) = 1
                      => out'.op = "restart" /\ out'.res = "Instance not found"
                   /\ RestartStarts(tasks', n) = RestartStarts(tasks, n)
                   /\ nextId' = nextId
                \/ /\ out'.op = "restart"
                   /\ out'.res = "did not stop in time"
                   /\ instances[n] # 0
                   /\ objs'[instances[n]].status # "stopped"
                   /\ \E k \in 1..Len(tasks) :
                         /\ tasks[k].kind = "poll"
                         /\ tasks[k].name = n
                         /\ tasks[k].waited + PollIntervalMs >= RestartTimeoutMs
                   /\ RestartStarts(tasks', n) = RestartStarts(tasks, n)
                   /\ nextId' = nextId]_vars

\* A restart has given up waiting: the time allowed has passed, the
\* instance is still not stopped, and no start is pending.
RestartWaitsForStoppedWitness ==
    /\ out.op = "restart"
    /\ out.res = "did not stop in time"
    /\ \A n \in Names : RestartStarts(tasks, n) = 0 /\ RestartWaits(tasks, n) = 0
    /\ \E n \in Names : instances[n] # 0 /\ objs[instances[n]].status # "stopped"

\* The names of the instances other than the one a call is for: a call made
\* with name n that holds the instance object o (0 if it holds none).
Others(n, o) ==
    {m \in Names \ {n} : instances[m] # 0 /\ instances[m] # o}

\* A step leaves the instance registered as m alone: its registration, its
\* status and pid, the handle that carries its pid, and its Log Buffer.
Untouched(m) ==
    /\ instances'[m] = instances[m]
    /\ objs'[instances[m]].status = objs[instances[m]].status
    /\ objs'[instances[m]].pid = objs[instances[m]].pid
    /\ instanceLogs'[m] = instanceLogs[m]
    /\ ~Falsy(objs[instances[m]].pid)
       => \A h \in DOMAIN processes :
             processes[h].pid = objs[instances[m]].pid
             => h \in DOMAIN processes' /\ processes'[h] = processes[h]

StopInFlight ==
    \E k \in 1..Len(tasks) :
       tasks[k].kind = "stop" /\ tasks[k].timer = "armed"
                             /\ tasks[k].caller # "restart"
RestartInFlight ==
    \E k \in 1..Len(tasks) :
       tasks[k].caller = "restart" /\ tasks[k].timer # "fired"

\* C22: every stop accepted on a running instance answers in the end (its
\* process exits or its grace timer fires), and every restart answers in
\* the end, with a result or a failure, whatever the workload does.
CallsComplete ==
    /\ StopInFlight ~> ~StopInFlight
    /\ RestartInFlight ~> ~RestartInFlight

\* A stop has answered although the workload never ended: the grace timer
\* fired, the shell was killed and a process of its group is still running.
CallsCompleteWitness ==
    /\ out = Report("stop", "ok", 1, 0)
    /\ Pending(tasks) = 0
    /\ \E p \in DOMAIN os : os[p].leader = "zombie" /\ os[p].child

\* The process with this pid exists on the host.
Alive(pid) == ~Falsy(pid) /\ pid \in DOMAIN os /\ os[pid].leader # "gone"

\* C23: the start of the supervisor loads every instance of the file and
\* leaves it as the host has it: running under its persisted pid if that
\* pid is alive, stopped and without pid if not; its other fields are those
\* of the file, and the file is rewritten with the result.
BootReconciles ==
    [][Boot
       => /\ \A n \in Names :
                IF disk[n].status = "absent" THEN instances'[n] = 0
                ELSE /\ instances'[n] # 0
                     /\ LET inst == objs'[instances'[n]]
                        IN /\ Alive(disk[n].pid)
                              => inst.status = "running" /\ inst.pid = disk[n].pid
                           /\ ~Alive(disk[n].pid)
                              => inst.status = "stopped" /\ inst.pid = Null
                           /\ inst.command = disk[n].command
                           /\ inst.workingDir = disk[n].workingDir
          /\ disk' = Snapshot(instances', objs')
          /\ out'.saves = 1]_vars

\* The supervisor has started on a file with two instances: the process of
\* one is alive, the other has no process any more.
BootReconcilesWitness ==
    /\ out = Report("boot", "ok", 1, 0)
    /\ DOMAIN os = {OldPid}
    /\ \A n \in Names : instances[n] # 0
    /\ objs[instances["alpha"]].status = "running"
    /\ objs[instances["alpha"]].pid = OldPid
    /\ objs[instances["beta"]].status = "stopped"
    /\ objs[instances["beta"]].pid = Null
    /\ disk = Snapshot(instances, objs)

\* The stop calls whose exit listener is registered on the process p.
Listening(p) == {k \in 1..Len(tasks) : tasks[k].kind = "stop" /\ tasks[k].pid = p}

ExitedHandleIsReaped ==
    \A h \in DOMAIN processes :
       LET p == processes[h].pid
       IN ~Falsy(p) /\ p \in DOMAIN os /\ os[p].leader = "gone" /\ ~os[p].child
          => objs[os[p].obj].status # "stopped"

\* C26: when the exit of a supervised process is delivered, a line is
\* appended to the Log Buffer of its instance, behind the lines captured
\* from the process: the buffer is not empty afterwards and its newest line
\* is not one that was there before.
ExitIsLogged ==
    [][\A p \in DOMAIN os :
          ExitEvent(p)
          => /\ instanceLogs'[os[p].name] # <<>>
             /\ instanceLogs'[os[p].name] # instanceLogs[os[p].name]]_vars

\* C27: killProcess returns to its caller whatever happens.  A signal
\* the host rejects adds one error to the handle and reaches no process; a
\* handle without pid gets one error and no signal is sent; an unknown id
\* changes nothing; a signal the host accepts records nothing.  No handle is
\* added or removed and every other handle is as it was.
KillNeverRaises ==
    [][\A id \in HandleIds, effect \in KillEffects :
          killProcess(id, effect)
          => /\ out' = Report("kill", "ok", 0, 0)
             /\ DOMAIN processes' = DOMAIN processes
             /\ \A h \in DOMAIN processes \ {id} : processes'[h] = processes[h]
             /\ id \notin DOMAIN processes => processes' = processes /\ os' = os
             /\ id \in DOMAIN processes
                => LET info == processes[id]
                       recorded == /\ processes'[id].errors # info.errors
                                   /\ Len(processes'[id].errors) = Len(info.errors) + 1
                                   /\ SubSeq(processes'[id].errors, 1, Len(info.errors))
                                        = info.errors
                                   /\ processes'[id].pid = info.pid
                                   /\ os' = os
                   IN /\ Falsy(info.pid) => recorded
                      /\ ~Falsy(info.pid) /\ effect = "rejected" => recorded
                      /\ ~Falsy(info.pid) /\ effect # "rejected"
                         => processes' = processes]_vars

\* killProcess was called on a handle whose process group is gone: the
\* host rejected the signal and the handle carries the error, while a
\* handle that never had a pid is as the failed spawn left it.
KillNeverRaisesWitness ==
    /\ out = Report("kill", "ok", 0, 0)
    /\ \E h \in DOMAIN processes :
          /\ ~Falsy(processes[h].pid)
          /\ processes[h].errors = <<"kill">>
          /\ os[processes[h].pid].leader = "gone"
    /\ \E h \in DOMAIN processes :
          Falsy(processes[h].pid) /\ Len(processes[h].errors) <= 1

\* C28: updateStats starts one probe for every handle that has a pid and
\* answers only when the last of them has settled, with success whichever
\* of them failed.  A probe that succeeds writes cpu and memory of its own
\* handle, one that fails adds one error to its own handle, and neither
\* touches any other handle.
StatsBatchSettles ==
    [][/\ updateStats
          => /\ processes' = processes
             /\ Len(Probes(tasks')) =
                  Cardinality({h \in DOMAIN processes : ~Falsy(processes[h].pid)})
             /\ \A h \in DOMAIN processes :
                  ~Falsy(processes[h].pid)
                  => \E k \in 1..Len(tasks') :
                        tasks'[k].kind = "probe" /\ tasks'[k].hid = h
             /\ out'.op = "updateStats" <=> Probes(tasks') = <<>>
       /\ \A i \in 1..MaxSlots, outcome \in ProbeOutcomes :
             ProbeSettles(i, outcome)
             => LET h == tasks[i].hid
                IN /\ DOMAIN processes' = DOMAIN processes
                   /\ \A g \in DOMAIN processes \ {h} : processes'[g] = processes[g]
                   /\ Len(Probes(tasks')) = Len(Probes(tasks)) - 1
                   /\ out'.op = "updateStats" <=> Probes(tasks') = <<>>
                   /\ out'.res = IF Probes(tasks') = <<>> THEN "ok" ELSE "none"
                   /\ h \in DOMAIN processes
                      => IF outcome.ok
                         THEN processes'[h] = [processes[h] EXCEPT
                                                 !.cpu = outcome.cpu,
                                                 !.memory = outcome.memory]
                         ELSE processes'[h] = [processes[h] EXCEPT
                                                 !.errors = Append(@, "stats")]]_vars

\* A batch over two handles has answered: one probe failed and left its
\* error on its handle, the other succeeded and wrote its readings.
StatsBatchSettlesWitness ==
    /\ out = Report("updateStats", "ok", 0, 0)
    /\ Probes(tasks) = <<>>
    /\ \E g \in DOMAIN processes, h \in DOMAIN processes :
          /\ processes[g].errors = <<"stats">>
          /\ processes[g].cpu = 0 /\ processes[g].memory = 0
          /\ processes[h].errors = <<>>
          /\ processes[h].cpu = 5 /\ processes[h].memory = 7

\* C29: a save that fails, in a start, in the cleanup of a stop or in
\* the status check, leaves the new status and pid in memory, leaves the
\* file as it was, and leaves the supervisor running.
PersistFailureIsSurvived ==
    [][/\ \A i \in 1..MaxSlots, forks \in BOOLEAN :
             StartSpawnDiskFull(i, forks)
             => /\ objs'[tasks[i].obj].status = "running"
                /\ objs'[tasks[i].obj].pid = PidOf(nextId)
                /\ disk' = disk
                /\ out'.res # "uncaught"
       /\ \A p \in DOMAIN os :
             ExitEventDiskFull(p)
             => /\ \E n \in Names :
                      /\ instances[n] # 0
                      /\ objs[instances[n]].pid = p
                      /\ objs'[instances[n]].status = "stopped"
                      /\ objs'[instances[n]].pid = Null
                /\ disk' = disk
                /\ out'.res # "uncaught"
       /\ TickDiskFull
          => /\ \A n \in Names :
                   instances[n] # 0 => objs'[instances[n]] = Reconciled(objs[instances[n]])
             /\ disk' = disk
             /\ out'.res # "uncaught"]_vars

\* C30: the exit of an earlier process of an instance, delivered after
\* the grace timer of its stop killed it and after the instance was started
\* again, leaves the instance running under the pid of the new process.
LateExitKeepsNewProcess ==
    [][\A p \in DOMAIN os :
          ExitEvent(p)
          => \A k \in Listening(p) :
                LET inst == objs[tasks[k].obj]
                IN /\ tasks[k].timer = "fired"
                   /\ inst.status = "running"
                   /\ ~Falsy(inst.pid)
                   /\ inst.pid # p
                   => /\ objs'[tasks[k].obj].status = "running"
                      /\ objs'[tasks[k].obj].pid = inst.pid]_vars

\* C31: for every instance the Registry shows running with a pid, the
\* ProcessManager holds a handle that carries this pid.
RunningHasHandle ==
    \A o \in Registered :
       objs[o].status = "running" /\ ~Falsy(objs[o].pid)
       => FindByPid(processes, objs[o].pid) # 0

\* C32: a start whose configured command line matches a rule of the
\* denylist is refused whether or not a file of that name exists in the
\* working directory: nothing is spawned, the handle has no pid and the
\* instance is not marked running.
GateIgnoresWorkingDir ==
    [][\A i \in 1..MaxSlots, exists \in BOOLEAN, outcome \in SpawnOutcomes,
          forks \in BOOLEAN :
          /\ StartSpawn(i, exists, outcome, forks)
          /\ isCommandWithArgsDisabled(Head(tasks[i].cmd), Tail(tasks[i].cmd))
          => /\ Falsy(processes'[nextId].pid)
             /\ os' = os
             /\ objs' = objs]_vars

\* The status of every instance agrees with the host: running with a pid
\* that is alive, or not running and without pid.
AllAgree ==
    \A o \in Registered :
       \/ objs[o].status = "running" /\ Alive(objs[o].pid)
       \/ objs[o].status # "running" /\ objs[o].pid = Null

\* C33: a tick that finds the status of every instance in agreement with
\* the host changes nothing, saves nothing and notifies nobody.
QuietTickChangesNothing ==
    [][(Tick /\ Registered # {} /\ AllAgree)
       => /\ objs' = objs
          /\ disk' = disk
          /\ out'.saves = 0
          /\ out'.emits = 0]_vars

\* The names that are keys of the Registry.
Keys == {n \in Names : instances[n] # 0}

\* C35: an update of settings that gives an instance a new name never
\* replaces or removes another instance: when the new name is already a key
\* of the Registry both instances stay as they were, and the number of
\* instances is the same after every update.
RenameKeepsInstances ==
    [][\A n \in Names, m \in Names, d \in Dirs, c \in ServerLines :
          UpdateInstanceSettings(n, m, d, c)
          => /\ Cardinality({k \in Names : instances'[k] # 0}) = Cardinality(Keys)
             /\ (n # m /\ instances[n] # 0 /\ instances[m] # 0)
                => instances' = instances /\ objs' = objs]_vars

\* C34: the exit of a process, delivered to a stop call whose instance
\* has since been renamed or removed from under the name the call was made
\* with, raises nothing uncaught, creates no entry under that name and
\* leaves an instance that now holds that name as it was.
LateExitLeavesOldName ==
    [][\A p \in DOMAIN os :
          ExitEvent(p)
          => \A k \in Listening(p) :
                LET n == tasks[k].name
                IN instances[n] # tasks[k].obj
                   => /\ out'.res # "uncaught"
                      /\ instances'[n] = instances[n]
                      /\ instances[n] # 0
                         => objs'[instances[n]] = objs[instances[n]]]_vars

\* C36: a text appended to a Log Buffer in one chunk and the same text
\* appended in two chunks, cut at any position, leave the same lines in the
\* buffer.
ChunkingIsInvisible ==
    probe.verdict = "tail" => instanceLogs["beta"] = instanceLogs["alpha"]

====
